---- MODULE Spec2Model ----
(***************************************************************************)
(* A model of voter (src/app.rs): the ballot parser, the first-choice      *)
(* projection, the three tallies (Plurality, Schulze Winning, Weighted     *)
(* Random), vote() and the three UI callbacks of the App component.        *)
(*                                                                         *)
(* A ballot text is a sequence of lines and a line a sequence of tokens:   *)
(* a candidate name, one of the operators ">", "=", "*", or the digits of  *)
(* a weight.  Whitespace is not modelled (names are already trimmed).      *)
(*                                                                         *)
(* The tallystick crate (util::read_votes, DefaultPluralityTally,          *)
(* SchulzeTally, RankedWinners) is not part of src/; its operators are     *)
(* modelled from spec.md sections 4.1, 4.3 and 4.4.                        *)
(*                                                                         *)
(* A Result is [ok |-> TRUE, val |-> v] or [ok |-> FALSE, err |-> msg].    *)
(* A Ranking (app.rs:24) is a sequence of <<candidate, rank>>.             *)
(***************************************************************************)
EXTENDS Integers, Sequences, FiniteSets, TLC

VARIABLES
    raw_votes,    \* App: the textarea's text            (app.rs:259)
    alg,          \* App: the selected method string     (app.rs:260)
    winners,      \* App: the displayed ranking          (app.rs:261)
    error,        \* App: the displayed error message    (app.rs:262)
    event,        \* App: the callback that ran last
    votes_raw,    \* vote(): its first argument          (app.rs:169)
    method,       \* vote(): its second argument         (app.rs:169)
    phase,        \* which invocations of vote() have returned
    res1,         \* the first invocation's result
    votes_raw2,   \* the ballot text of the second invocation
    res2,         \* the second invocation's result
    pc,           \* weighted_random: position in the function
    votes,        \* weighted_random: the pool (app.rs:143)
    input,        \* weighted_random: its argument
    lw,           \* weighted_random: the winners vector (app.rs:144)
    roll,         \* weighted_random: the draw (app.rs:147)
    found_index,  \* weighted_random: the walk's index (app.rs:149)
    output        \* weighted_random: the returned Ranking

vars == <<raw_votes, alg, winners, error, event, votes_raw, method, phase, res1,
          votes_raw2, res2, pc, votes, input, lw, roll, found_index, output>>

appVars == <<raw_votes, alg, winners, error, event>>
voteVars == <<votes_raw, method, phase, res1, votes_raw2, res2>>
lotVars == <<pc, votes, input, lw, roll, found_index, output>>

----------------------------------------------------------------------------
(* Bounds. *)

\* The longest ballot text handed to vote(), in lines.
MaxLines == 3

\* The longest text typed into the textarea, in lines.
MaxAppLines == 2

\* The width in bits of the model's stand-in for u32 in weighted_random: TLC's
\* integers are 32-bit signed, so the weights of the lottery wrap at
\* 2^WeightBits instead of 2^32.
WeightBits == 4

\* The longest list of unranked votes handed to weighted_random.
MaxVotes == 3

----------------------------------------------------------------------------
(* Generic helpers. *)

Ok(v) == [ok |-> TRUE, val |-> v]

Err(msg) == [ok |-> FALSE, err |-> msg]

Range(s) == {s[i] : i \in DOMAIN s}

\* Every order in which an unordered container of the elements S can iterate.
Perms(S) ==
    {f \in [1..Cardinality(S) -> S] : \A i, j \in DOMAIN f : i # j => f[i] # f[j]}

\* The rearrangements of a sequence.
SeqPerms(s) ==
    {[i \in DOMAIN s |-> s[p[i]]] : p \in Perms(DOMAIN s)}

RECURSIVE SumOver(_, _)
SumOver(f, S) ==
    IF S = {} THEN 0
    ELSE LET x == CHOOSE y \in S : TRUE IN f[x] + SumOver(f, S \ {x})

\* s.iter().filter(keep) for a sequence s, keep a set of indexes.
RECURSIVE FilterIdx(_, _, _)
FilterIdx(s, keep, i) ==
    IF i > Len(s) THEN <<>>
    ELSE (IF i \in keep THEN <<s[i]>> ELSE <<>>) \o FilterIdx(s, keep, i + 1)

----------------------------------------------------------------------------
(* Error messages. *)

ParseErrorMsg == "Failed to parse votes, check for stray '*', '>', or '=' characters."

DuplicateErrorMsg == "Failed to parse votes, canidate was used twice in a ranking."

AmbiguousErrorMsg == "Vote has more than one first choice."

InvalidVoteMsg == "Invalid vote was used. Check that vote order does not list canidate twice."

UnknownMethodMsg == "Matching variant not found"

----------------------------------------------------------------------------
(* Method (app.rs:26-32): strum's title_case names. *)

PluralityName == "Plurality"

SchulzeName == "Schulze Winning"

WeightedRandomName == "Weighted Random"

MethodNames == {PluralityName, SchulzeName, WeightedRandomName}

\* Method::from_str
Method_from_str(s) ==
    IF s \in MethodNames THEN Ok(s) ELSE Err(UnknownMethodMsg)

----------------------------------------------------------------------------
(* The ballot parser: tallystick::util::read_votes, from spec.md 4.1.      *)
(*   candidate (( '>' | '=' ) candidate)* ( '*' positive-integer )?        *)

Operators == {">", "=", "*"}

NumberValue == ("0" :> 0) @@ ("1" :> 1) @@ ("2" :> 2) @@ ("3" :> 3)

StarPositions(line) == {i \in DOMAIN line : line[i] = "*"}

\* The part of a line before its '*'.
RankingPart(line) ==
    IF StarPositions(line) = {} THEN line
    ELSE SubSeq(line, 1, (CHOOSE i \in StarPositions(line) : TRUE) - 1)

\* The weight suffix is absent, or one '*' followed by one positive integer.
WeightOk(line) ==
    \/ StarPositions(line) = {}
    \/ /\ StarPositions(line) = {Len(line) - 1}
       /\ line[Len(line)] \in DOMAIN NumberValue
       /\ NumberValue[line[Len(line)]] > 0

LineWeight(line) ==
    IF StarPositions(line) = {} THEN 1 ELSE NumberValue[line[Len(line)]]

\* Names at the odd positions, '>' or '=' between them.
RankingOk(r) ==
    /\ Len(r) % 2 = 1
    /\ \A i \in DOMAIN r :
          IF i % 2 = 1 THEN r[i] \notin Operators ELSE r[i] \in {">", "="}

\* The tier of the name at odd position i: the number of '>' before it.
TierAt(r, i) == Cardinality({j \in 1..(i - 1) : r[j] = ">"})

\* The RankedVote of a well-formed ranking part: <<candidate, tier>> pairs.
RankedOf(r) ==
    [k \in 1..((Len(r) + 1) \div 2) |-> <<r[2 * k - 1], TierAt(r, 2 * k - 1)>>]

LineOk(line) ==
    \/ line = <<>>
    \/ /\ WeightOk(line)
       /\ RankingOk(RankingPart(line))

\* One parsed line, already through ParsedVote::into_ranked: <<RankedVote, weight>>.
parse_line(line) ==
    IF line = <<>> THEN <<(<<>>), 1>>
    ELSE <<RankedOf(RankingPart(line)), LineWeight(line)>>

\* util::read_votes: every line parses, or the whole text is an error.
read_votes(raw) ==
    IF \A i \in DOMAIN raw : LineOk(raw[i])
    THEN Ok([i \in DOMAIN raw |-> parse_line(raw[i])])
    ELSE Err("ParseError")

----------------------------------------------------------------------------
(* app.rs:34-56 *)

\* set.len() < xx.len() (app.rs:41-42)
HasDuplicate(xx) ==
    Cardinality({xx[i][1] : i \in DOMAIN xx}) < Len(xx)

\* parse_votes without the repeated-candidate check.
parse_votes_unchecked(raw) ==
    LET v == read_votes(raw) IN
    IF v.ok THEN Ok(v.val) ELSE Err(ParseErrorMsg)

parse_votes(raw) ==
    LET v == read_votes(raw) IN
    IF v.ok
    THEN IF \E i \in DOMAIN v.val : HasDuplicate(v.val[i][1])
         THEN Err(DuplicateErrorMsg)
         ELSE Ok(v.val)
    ELSE Err(ParseErrorMsg)

----------------------------------------------------------------------------
(* app.rs:58-80 *)

\* x.0.iter().filter(|y| y.1 == 0)
FirstChoices(rv) == FilterIdx(rv, {i \in DOMAIN rv : rv[i][2] = 0}, 1)

\* as_unranked_votes looking for a tied first choice in the first vote only.
as_unranked_votes_first_only(vs) ==
    IF \E i \in DOMAIN vs : i = 1 /\ Len(FirstChoices(vs[i][1])) > 1
    THEN Err(AmbiguousErrorMsg)
    ELSE LET kept == FilterIdx(vs, {i \in DOMAIN vs : vs[i][1] # <<>>}, 1) IN
         Ok([i \in DOMAIN kept |->
               <<IF FirstChoices(kept[i][1]) = <<>> THEN ""
                 ELSE FirstChoices(kept[i][1])[1][1],
                 kept[i][2]>>])

as_unranked_votes(vs) ==
    IF \E i \in DOMAIN vs : Len(FirstChoices(vs[i][1])) > 1
    THEN Err(AmbiguousErrorMsg)
    ELSE LET kept == FilterIdx(vs, {i \in DOMAIN vs : vs[i][1] # <<>>}, 1) IN
         Ok([i \in DOMAIN kept |->
               <<IF FirstChoices(kept[i][1]) = <<>> THEN ""
                 ELSE FirstChoices(kept[i][1])[1][1],
                 kept[i][2]>>])

----------------------------------------------------------------------------
(* app.rs:82-90.  u32 arithmetic wraps at WeightModulus (release build).   *)

WeightModulus == 2 ^ WeightBits

\* The keys of the HashMap.
ConsolidatedKeys(uv) == {uv[i][1] : i \in DOMAIN uv}

\* The votes of one candidate.
VotesFor(uv, c) == {i \in DOMAIN uv : uv[i][1] = c}

\* The HashMap after the loop: candidate -> summed weight.
consolidate_unranked_votes(uv) ==
    [c \in ConsolidatedKeys(uv) |->
        SumOver([i \in DOMAIN uv |-> uv[i][2]], VotesFor(uv, c)) % WeightModulus]

\* map.into_iter().collect_vec(): the entries in one of the map's iteration orders.
ConsolidatedVec(uv, order) ==
    [i \in DOMAIN order |-> <<order[i], consolidate_unranked_votes(uv)[order[i]]>>]

----------------------------------------------------------------------------
(* app.rs:92-99 *)

\* The HashSet of every candidate named in any vote.
CandidateSet(vs) ==
    UNION {{vs[i][1][k][1] : k \in DOMAIN vs[i][1]} : i \in DOMAIN vs}

\* candidates.into_iter().collect(): the Vec, in any iteration order of the set.
candidates_from_votes(vs) == Perms(CandidateSet(vs))

----------------------------------------------------------------------------
(* tallystick: RankedWinners and DefaultPluralityTally, from spec.md 4.3.  *)

\* Position of x in the sequence s.
IndexOf(s, x) == CHOOSE i \in DOMAIN s : s[i] = x

\* The elements of `order` sorted by ascending key, ties in `order`'s order.
StableSort(order, key) ==
    CHOOSE s \in Perms(Range(order)) :
        \A i, j \in DOMAIN s :
            i < j => \/ key[s[i]] < key[s[j]]
                     \/ /\ key[s[i]] = key[s[j]]
                        /\ IndexOf(order, s[i]) < IndexOf(order, s[j])

\* RankedWinners::from_ranked: the first num_winners entries, and every entry
\* tied with the last of them.
from_ranked(ranked, num_winners) ==
    FilterIdx(ranked,
              {i \in DOMAIN ranked :
                  \/ i <= num_winners
                  \/ num_winners >= 1 /\ ranked[i][2] = ranked[num_winners][2]},
              1)

\* PluralityTally::add_weighted over all votes: candidate -> total (u64).
PluralityTotals(uv) ==
    [c \in ConsolidatedKeys(uv) |->
        SumOver([i \in DOMAIN uv |-> uv[i][2]], VotesFor(uv, c))]

\* PluralityTally::ranked: descending total, equal totals sharing a rank;
\* `order` is the iteration order of the tally's HashMap.
PluralityRanked(totals, order) ==
    LET rank == [c \in DOMAIN totals |->
                    Cardinality({b \in DOMAIN totals : totals[b] > totals[c]})]
        s == StableSort(order, rank)
    IN [i \in DOMAIN s |-> <<s[i], rank[s[i]]>>]

----------------------------------------------------------------------------
(* app.rs:101-113 *)

\* plurality adding every vote with weight 1 (add instead of add_weighted).
plurality_unweighted(uv, candidates, order) ==
    from_ranked(PluralityRanked(PluralityTotals([i \in DOMAIN uv |-> <<uv[i][1], 1>>]),
                                order),
                Len(candidates))

plurality(uv, candidates, order) ==
    from_ranked(PluralityRanked(PluralityTotals(uv), order), Len(candidates))

----------------------------------------------------------------------------
(* tallystick: SchulzeTally (Variant::Winning), from spec.md 4.4.          *)

Max(a, b) == IF a >= b THEN a ELSE b

Min(a, b) == IF a <= b THEN a ELSE b

\* The tier of c in a ranked vote; an omitted candidate sits below every
\* listed one.
TierIn(rv, c) ==
    IF \E k \in DOMAIN rv : rv[k][1] = c
    THEN rv[CHOOSE k \in DOMAIN rv : rv[k][1] = c][2]
    ELSE IF rv = <<>> THEN 0
    ELSE rv[Len(rv)][2] + 1

\* A matrix with its entries computed once (TLC evaluates a function
\* expression anew at every application; @@ builds it as a table).
Stored(m) == [a \in DOMAIN m |-> m[a] @@ <<>>] @@ <<>>

\* d[a][b]: the summed weight of the votes that put a strictly above b.
PairwiseMatrix(vs, C) ==
    Stored([a \in C |-> [b \in C |->
        SumOver([i \in DOMAIN vs |-> vs[i][2]],
                {i \in DOMAIN vs : TierIn(vs[i][1], a) < TierIn(vs[i][1], b)})]])

\* p[a][b] before the closure: the winning side's votes, 0 for the other side.
WinningMatrix(d) ==
    Stored([a \in DOMAIN d |-> [b \in DOMAIN d |->
        IF a # b /\ d[a][b] > d[b][a] THEN d[a][b] ELSE 0]])

\* One round of the closure, through the intermediate candidate k.
Relax(p, k) ==
    Stored([a \in DOMAIN p |-> [b \in DOMAIN p |->
        IF a # b /\ a # k /\ b # k
        THEN Max(p[a][b], Min(p[a][k], p[k][b]))
        ELSE p[a][b]]])

\* The triple loop, intermediates in the order of the candidate vector.
RECURSIVE BeatPaths(_, _, _)
BeatPaths(p, candidates, i) ==
    IF i > Len(candidates) THEN p
    ELSE BeatPaths(Relax(p, candidates[i]), candidates, i + 1)

\* SchulzeTally::ranked_add_weighted fails on a vote naming a candidate twice.
InvalidVote(rv) == HasDuplicate(rv)

\* SchulzeTally::winners: each candidate with the number of candidates that
\* beat it, best first, ties in the order of the candidate vector.
SchulzeWinners(vs, candidates) ==
    LET C == Range(candidates)
        p == BeatPaths(WinningMatrix(PairwiseMatrix(vs, C)), candidates, 1)
        rank == [c \in C |-> Cardinality({b \in C : p[b][c] > p[c][b]})]
        s == StableSort(candidates, rank)
    IN from_ranked([i \in DOMAIN s |-> <<s[i], rank[s[i]]>>], Len(candidates))

----------------------------------------------------------------------------
(* app.rs:115-138 *)

\* schulze adding every vote with weight 1 (the vote's own weight dropped).
schulze_unweighted(vs, candidates) ==
    IF Len(candidates) = 1 THEN Ok(<< <<candidates[1], 0>> >>)
    ELSE IF \E i \in DOMAIN vs : InvalidVote(vs[i][1]) THEN Err(InvalidVoteMsg)
    ELSE Ok(SchulzeWinners([i \in DOMAIN vs |-> <<vs[i][1], 1>>], candidates))

schulze(vs, candidates) ==
    IF Len(candidates) = 1 THEN Ok(<< <<candidates[1], 0>> >>)
    ELSE IF \E i \in DOMAIN vs : InvalidVote(vs[i][1]) THEN Err(InvalidVoteMsg)
    ELSE Ok(SchulzeWinners(vs, candidates))

----------------------------------------------------------------------------
(* app.rs:140-167.  The pool is a sequence of <<candidate, weight>>;       *)
(* indexes are 0-based as in the code.                                     *)

\* votes.iter().map(|x| x.1).sum() (app.rs:146), in u32
PoolSum(pool) ==
    SumOver([i \in DOMAIN pool |-> pool[i][2]], DOMAIN pool) % WeightModulus

\* The values Uniform::from(1..sum + 1) can return (app.rs:147); sum + 1 is
\* u32 arithmetic, and an empty range makes Uniform::from panic.
RollRange(sum) == 1..(((sum + 1) % WeightModulus) - 1)

\* The inner loop (app.rs:150-157): the index it breaks at, or Len(pool)
\* when the walk runs off the end of the pool (the indexing then panics).
RECURSIVE Walk(_, _, _)
Walk(pool, r, idx) ==
    IF idx >= Len(pool) THEN idx
    ELSE IF r <= pool[idx + 1][2] THEN idx
    ELSE Walk(pool, r - pool[idx + 1][2], idx + 1)

\* Vec::swap_remove(idx): the last element takes the removed one's place.
swap_remove(pool, idx) ==
    [i \in 1..(Len(pool) - 1) |-> IF i = idx + 1 THEN pool[Len(pool)] ELSE pool[i]]

\* The winners vectors the outer loop can build from a pool (a run that
\* panics builds none).
RECURSIVE DrawAll(_)
DrawAll(pool) ==
    IF pool = <<>> THEN {<<>>}
    ELSE UNION {
        LET idx == Walk(pool, r, 0) IN
        IF idx >= Len(pool) THEN {}
        ELSE {<<pool[idx + 1][1]>> \o rest : rest \in DrawAll(swap_remove(pool, idx))}
        : r \in RollRange(PoolSum(pool))}

\* winners.iter().enumerate().map(|(x, y)| (y.to_string(), x)) (app.rs:162-166)
Enumerated(w) == [i \in DOMAIN w |-> <<w[i], i - 1>>]

\* Every Ranking weighted_random can return for these unranked votes.
weighted_random(uv) ==
    UNION {{Enumerated(w) : w \in DrawAll(ConsolidatedVec(uv, order))}
           : order \in Perms(ConsolidatedKeys(uv))}

----------------------------------------------------------------------------
(* app.rs:169-181.  Every Result vote() can return: the iteration orders   *)
(* of the hash containers and the lottery's draws are the only choices.    *)

vote(raw, m) ==
    LET parsed == parse_votes(raw) IN
    IF ~parsed.ok THEN {Err(parsed.err)}
    ELSE LET vs == parsed.val
             how == Method_from_str(m)
         IN
         IF ~how.ok THEN {Err(how.err)}
         ELSE IF how.val = SchulzeName
         THEN {schulze(vs, candidates) : candidates \in candidates_from_votes(vs)}
         ELSE LET uv == as_unranked_votes(vs) IN
              IF ~uv.ok THEN {Err(uv.err)}
              ELSE IF how.val = PluralityName
              THEN {Ok(plurality(uv.val, candidates, order)) :
                        candidates \in candidates_from_votes(vs),
                        order \in Perms(ConsolidatedKeys(uv.val))}
              ELSE {Ok(w) : w \in weighted_random(uv.val)}

----------------------------------------------------------------------------
(* The inputs. *)

\* The lines a ballot text is made of: well-formed votes with and without
\* ties, omissions and weights, an empty line, a vote naming a candidate twice
\* and two malformed lines.
Lines ==
    { <<>>,
      <<"A">>, <<"B">>,
      <<"A", "*", "2">>,
      <<"A", ">", "B">>, <<"A", "=", "B">>,
      <<"A", ">", "B", "*", "2">>,
      <<"A", ">", "B", ">", "C">>, <<"B", ">", "C", ">", "A">>,
      <<"C", ">", "A", ">", "B">>,
      <<"A", ">", "A">>,
      <<"A", ">">>, <<"A", "*", "0">> }

\* The ballot texts: up to MaxLines lines.
Ballots == UNION {[1..n -> Lines] : n \in 0..MaxLines}

\* The method strings handed to vote(): the three names and one that is none.
MethodInputs == MethodNames \cup {"Borda"}

NoResult == [ok |-> FALSE, err |-> "not called"]

----------------------------------------------------------------------------
(* vote() as a pure function: the inputs are drawn, then it is invoked.    *)

VoteInit ==
    /\ votes_raw \in Ballots
    /\ method \in MethodInputs
    /\ phase = "input"
    /\ res1 = NoResult
    /\ votes_raw2 = <<>>
    /\ res2 = NoResult
    /\ raw_votes = <<>> /\ alg = PluralityName /\ winners = <<>> /\ error = ""
    /\ event = "none"
    /\ pc = "idle" /\ votes = <<>> /\ input = <<>> /\ lw = <<>>
    /\ roll = 0 /\ found_index = 0 /\ output = <<>>

Invoke ==
    /\ phase = "input"
    /\ \E r \in vote(votes_raw, method) : res1' = r
    /\ phase' = "once"
    /\ UNCHANGED <<votes_raw, method, votes_raw2, res2>>
    /\ UNCHANGED appVars
    /\ UNCHANGED lotVars

VoteNext == Invoke

SpecVote == VoteInit /\ [][VoteNext]_vars

----------------------------------------------------------------------------
(* The App component (app.rs:183-357).                                     *)

\* The initial textarea content (app.rs:185-259): the instructions, of which
\* the first line, "=== Voter ===", already fails to parse.
Instructions == << <<"=", "=", "=", "Voter", "=", "=", "=">> >>

\* The texts one input event can turn the textarea's text into: a line typed
\* at the end, or the last line deleted.
Edits(text) ==
    {Append(text, l) : l \in IF Len(text) < MaxAppLines THEN Lines ELSE {}}
    \cup (IF text = <<>> THEN {} ELSE {SubSeq(text, 1, Len(text) - 1)})

AppInit ==
    /\ raw_votes = Instructions
    /\ alg = PluralityName
    /\ winners = <<>>
    /\ error = ""
    /\ event = "none"
    /\ votes_raw = <<>> /\ method = PluralityName /\ phase = "idle"
    /\ res1 = NoResult /\ votes_raw2 = <<>> /\ res2 = NoResult
    /\ pc = "idle" /\ votes = <<>> /\ input = <<>> /\ lw = <<>>
    /\ roll = 0 /\ found_index = 0 /\ output = <<>>

\* onclick with the Err arm leaving the error message unset.
onclick_keeps_error ==
    /\ \E r \in vote(raw_votes, alg) :
          IF r.ok
          THEN winners' = r.val /\ error' = ""
          ELSE winners' = <<>> /\ error' = error
    /\ event' = "click"
    /\ UNCHANGED <<raw_votes, alg>>
    /\ UNCHANGED voteVars
    /\ UNCHANGED lotVars

\* The Calculate button (app.rs:264-279).
onclick ==
    /\ \E r \in vote(raw_votes, alg) :
          IF r.ok
          THEN winners' = r.val /\ error' = ""
          ELSE winners' = <<>> /\ error' = r.err
    /\ event' = "click"
    /\ UNCHANGED <<raw_votes, alg>>
    /\ UNCHANGED voteVars
    /\ UNCHANGED lotVars

\* oninput without the two resets.
oninput_keeps_result ==
    /\ UNCHANGED <<winners, error>>
    /\ \/ \E data \in Edits(raw_votes) : raw_votes' = data
       \/ UNCHANGED raw_votes
    /\ event' = "input"
    /\ UNCHANGED alg
    /\ UNCHANGED voteVars
    /\ UNCHANGED lotVars

\* An edit of the textarea (app.rs:281-294).
oninput ==
    /\ winners' = <<>>
    /\ error' = ""
    /\ \/ \E data \in Edits(raw_votes) : raw_votes' = data
       \/ UNCHANGED raw_votes
    /\ event' = "input"
    /\ UNCHANGED alg
    /\ UNCHANGED voteVars
    /\ UNCHANGED lotVars

\* A change of the method select (app.rs:296-309).
onchange ==
    /\ winners' = <<>>
    /\ error' = ""
    /\ \/ \E target \in MethodNames : alg' = target
       \/ UNCHANGED alg
    /\ event' = "change"
    /\ UNCHANGED raw_votes
    /\ UNCHANGED voteVars
    /\ UNCHANGED lotVars

Next == onclick \/ oninput \/ onchange

Spec == AppInit /\ [][Next]_vars

----------------------------------------------------------------------------
(* Claims about the App component, checked under Spec.                     *)

\* C1: the displayed ranking and the displayed error are never both
\* non-empty; right after a Calculate the display is what vote() returned for
\* the stored text and method: a ranking with the error empty, or the error
\* message with the ranking empty.
C1_RankingOrError ==
    /\ ~(winners # <<>> /\ error # "")
    /\ event = "click" =>
          \/ error = "" /\ Ok(winners) \in vote(raw_votes, alg)
          \/ winners = <<>> /\ error # "" /\ Err(error) \in vote(raw_votes, alg)

\* C1: a Calculate has failed at the first-choice projection, after edits
\* that made the text parse.
C1_Witness ==
    /\ event = "click"
    /\ error = AmbiguousErrorMsg
    /\ winners = <<>>

\* C10: an edit or a method change leaves both displays empty, and whatever
\* is displayed is a result of vote() on the stored text and method.
C10_NoStaleResult ==
    /\ event \in {"input", "change"} => winners = <<>> /\ error = ""
    /\ winners # <<>> => Ok(winners) \in vote(raw_votes, alg)
    /\ error # "" => Err(error) \in vote(raw_votes, alg)

\* C10: a ranking is displayed for a two-line text under a method other than
\* the initial one.
C10_Witness ==
    /\ event = "click"
    /\ winners # <<>>
    /\ alg = SchulzeName
    /\ Len(raw_votes) = 2

----------------------------------------------------------------------------
(* What a ballot text says, read off its tokens (not off the parsed votes). *)

WellFormed(text) == \A i \in DOMAIN text : LineOk(text[i])

\* The positions of the candidate names of a well-formed line.
NamePositions(line) == {k \in DOMAIN RankingPart(line) : k % 2 = 1}

NamesOfLine(line) == {line[k] : k \in NamePositions(line)}

NamesOfText(text) == UNION {NamesOfLine(text[i]) : i \in DOMAIN text}

\* The line names one candidate at two positions.
RepeatsName(line) ==
    \E j, k \in NamePositions(line) : j < k /\ line[j] = line[k]

\* The line's first two candidates are joined by '=': a tied first choice.
TiedFirst(line) == Len(RankingPart(line)) >= 3 /\ line[2] = "="

\* The text parses and no line repeats a candidate.
Accepted(text) ==
    WellFormed(text) /\ \A i \in DOMAIN text : ~RepeatsName(text[i])

\* The total weight of the lines whose first candidate is c.
FirstChoiceWeight(text, c) ==
    SumOver([i \in DOMAIN text |-> LineWeight(text[i])],
            {i \in DOMAIN text : text[i] # <<>> /\ text[i][1] = c})

\* The number of '>' before candidate c in the line; an omitted candidate is
\* one step below the last listed one.
TierOnLine(line, c) ==
    LET r == RankingPart(line) IN
    IF c \in NamesOfLine(line)
    THEN Cardinality({j \in 1..((CHOOSE k \in NamePositions(line) : line[k] = c) - 1) :
                         r[j] = ">"})
    ELSE IF line = <<>> THEN 0
    ELSE Cardinality({j \in DOMAIN r : r[j] = ">"}) + 1

\* The weight of the lines that put a strictly above b.
Prefer(text, a, b) ==
    SumOver([i \in DOMAIN text |-> LineWeight(text[i])],
            {i \in DOMAIN text : TierOnLine(text[i], a) < TierOnLine(text[i], b)})

\* The winning votes of a over b: 0 unless more lines prefer a.
Winning(text, a, b) ==
    IF Prefer(text, a, b) > Prefer(text, b, a) THEN Prefer(text, a, b) ELSE 0

\* The paths from a to b through distinct candidates.
PathsBetween(K, a, b) ==
    {s \in UNION {Perms(S) : S \in SUBSET K} :
        Len(s) >= 2 /\ s[1] = a /\ s[Len(s)] = b}

\* The weakest link of a path.
RECURSIVE PathWidth(_, _, _)
PathWidth(text, s, i) ==
    IF i = Len(s) - 1 THEN Winning(text, s[i], s[i + 1])
    ELSE Min(Winning(text, s[i], s[i + 1]), PathWidth(text, s, i + 1))

\* The widest-path closure: the width of the widest path from a to b.
Strength(text, a, b) ==
    LET widths == {PathWidth(text, s, 1) : s \in PathsBetween(NamesOfText(text), a, b)}
    IN CHOOSE w \in widths : \A v \in widths : v <= w

Beats(text, a, b) == a # b /\ Strength(text, a, b) > Strength(text, b, a)

Beaters(text, c) == {b \in NamesOfText(text) : Beats(text, b, c)}

CycleLines ==
    { <<"A", ">", "B", ">", "C">>, <<"B", ">", "C", ">", "A">>,
      <<"C", ">", "A", ">", "B">> }

----------------------------------------------------------------------------
(* Claims about vote(), checked under SpecVote.                            *)

\* C5: when every line is well-formed and some line names a candidate twice,
\* vote() returns the duplicate-candidate error whatever the method string is
\* (also one that names no method), and no tally is ever reached with such a
\* vote: whenever parse_votes succeeds no parsed vote repeats a candidate, and
\* schulze never reports an invalid vote.
C5_DuplicateRejected ==
    phase = "once" =>
       /\ (WellFormed(votes_raw) /\ \E i \in DOMAIN votes_raw : RepeatsName(votes_raw[i]))
              => res1 = Err(DuplicateErrorMsg)
       /\ parse_votes(votes_raw).ok =>
              \A i \in DOMAIN votes_raw : ~RepeatsName(votes_raw[i])
       /\ res1 # Err(InvalidVoteMsg)

\* C5: a text whose second line repeats a candidate was rejected under a method
\* string that names no method.
C5_Witness ==
    /\ phase = "once"
    /\ method = "Borda"
    /\ Len(votes_raw) = 2
    /\ votes_raw[2] = <<"A", ">", "A">>
    /\ res1 = Err(DuplicateErrorMsg)

\* C6: when the text is accepted by parse_votes and some vote has a tied first
\* choice, vote() returns the ambiguous-first-choice error under Plurality and
\* under Weighted Random, wherever the vote sits, and returns a ranking under
\* Schulze Winning.
C6_TiedFirstChoice ==
    (/\ phase = "once"
     /\ Accepted(votes_raw)
     /\ \E i \in DOMAIN votes_raw : TiedFirst(votes_raw[i]))
    => /\ method \in {PluralityName, WeightedRandomName} => res1 = Err(AmbiguousErrorMsg)
       /\ method = SchulzeName => res1.ok /\ res1.val # <<>>

\* C6: the tied vote is the last of three lines and the lottery refused it.
C6_Witness ==
    /\ phase = "once"
    /\ method = WeightedRandomName
    /\ Len(votes_raw) = 3
    /\ votes_raw[1] = <<"B">>
    /\ TiedFirst(votes_raw[3])
    /\ res1 = Err(AmbiguousErrorMsg)

\* The ranking lists each of the candidates K exactly once.
ListsExactly(r, K) ==
    /\ {r[i][1] : i \in DOMAIN r} = K
    /\ Len(r) = Cardinality(K)

\* C7 as amended: in the Schulze Winning ranking of two or more candidates
\* every candidate appears once and its rank is the number of candidates that
\* beat it (so candidates beaten by equally many share a rank), and the three
\* votes of a cycle put all three candidates at rank 0.
C7_RankIsNumberOfBeaters ==
    (/\ phase = "once"
     /\ method = SchulzeName
     /\ res1.ok
     /\ Cardinality(NamesOfText(votes_raw)) >= 2)
    => /\ ListsExactly(res1.val, NamesOfText(votes_raw))
       /\ \A i \in DOMAIN res1.val :
             res1.val[i][2] = Cardinality(Beaters(votes_raw, res1.val[i][1]))
       /\ (Len(votes_raw) = 3 /\ Range(votes_raw) = CycleLines)
             => \A i \in DOMAIN res1.val : res1.val[i][2] = 0

\* C7 as stated: besides the above, two candidates neither of which beats the
\* other share the same rank.
C7_UnbeatenPairsShareRank ==
    (/\ phase = "once"
     /\ method = SchulzeName
     /\ res1.ok
     /\ Cardinality(NamesOfText(votes_raw)) >= 2)
    => /\ C7_RankIsNumberOfBeaters
       /\ \A i, j \in DOMAIN res1.val :
             (/\ ~Beats(votes_raw, res1.val[i][1], res1.val[j][1])
              /\ ~Beats(votes_raw, res1.val[j][1], res1.val[i][1]))
             => res1.val[i][2] = res1.val[j][2]

\* C7: a Schulze ranking of three candidates in which one candidate beats
\* another and the third is level with both.
C7_Witness ==
    /\ phase = "once"
    /\ method = SchulzeName
    /\ res1.ok
    /\ Len(res1.val) = 3
    /\ res1.val[2][2] = 0
    /\ res1.val[3][2] = 1
    /\ Cardinality(Beaters(votes_raw, res1.val[3][1])) = 1

\* C8: the Plurality ranking lists exactly the candidates that are some
\* vote's first choice, in descending order of their total first-choice
\* weight; equal totals have equal ranks, and along the list the rank grows
\* exactly where the total strictly falls, starting from 0.
C8_PluralityRanking ==
    (/\ phase = "once"
     /\ method = PluralityName
     /\ res1.ok)
    => LET r == res1.val
           total == [i \in DOMAIN r |-> FirstChoiceWeight(votes_raw, r[i][1])]
       IN /\ ListsExactly(r, {c \in NamesOfText(votes_raw) :
                                 FirstChoiceWeight(votes_raw, c) > 0})
          /\ r # <<>> => r[1][2] = 0
          /\ \A i, j \in DOMAIN r : i < j => total[i] >= total[j]
          /\ \A i, j \in DOMAIN r : total[i] = total[j] => r[i][2] = r[j][2]
          /\ \A i \in DOMAIN r : i < Len(r) =>
                /\ r[i + 1][2] >= r[i][2]
                /\ r[i + 1][2] > r[i][2] <=> total[i + 1] < total[i]

\* C8: a Plurality ranking of two candidates with different totals, from a
\* text that also names a candidate only below the first tier.
C8_Witness ==
    /\ phase = "once"
    /\ method = PluralityName
    /\ res1.ok
    /\ Len(res1.val) = 2
    /\ res1.val[2][2] = 1
    /\ Cardinality(NamesOfText(votes_raw)) = 3
    /\ \E i \in DOMAIN votes_raw : LineWeight(votes_raw[i]) = 2

----------------------------------------------------------------------------
(* Two invocations of vote(): the same text again, a rearrangement of its  *)
(* lines, or a weighted line written out as copies.                        *)

\* The second invocation: ballot text `text`, the same method.
Second(text, tag) ==
    /\ phase = "once"
    /\ votes_raw2' = text
    /\ \E r \in vote(text, method) : res2' = r
    /\ phase' = tag
    /\ UNCHANGED <<votes_raw, method, res1>>
    /\ UNCHANGED appVars
    /\ UNCHANGED lotVars

InvokeAgain == Second(votes_raw, "twice")

InvokePermuted ==
    \E text \in SeqPerms(votes_raw) \ {votes_raw} : Second(text, "permuted")

\* N copies of the sequence s, one after the other.
RECURSIVE Copies(_, _)
Copies(s, n) == IF n = 0 THEN <<>> ELSE s \o Copies(s, n - 1)

\* The text with its weighted line i replaced by LineWeight copies of the
\* line without the weight.
Expanded(text, i) ==
    SubSeq(text, 1, i - 1)
    \o Copies(<<RankingPart(text[i])>>, LineWeight(text[i]))
    \o SubSeq(text, i + 1, Len(text))

InvokeExpanded ==
    \E i \in DOMAIN votes_raw :
        /\ LineOk(votes_raw[i])
        /\ StarPositions(votes_raw[i]) # {}
        /\ Second(Expanded(votes_raw, i), "expanded")

TwiceNext == Invoke \/ InvokeAgain

SpecTwice == VoteInit /\ [][TwiceNext]_vars

PermutedNext == Invoke \/ InvokePermuted

SpecPermuted == VoteInit /\ [][PermutedNext]_vars

ExpandedNext == Invoke \/ InvokeExpanded

SpecExpanded == VoteInit /\ [][ExpandedNext]_vars

\* The ranks a ranking gives, without the order of the list.
RankOf(r) == {<<r[i][1], r[i][2]>> : i \in DOMAIN r}

\* C2: under Plurality and Schulze Winning two invocations of vote() with the
\* same text and method return the same output, in the same order.
C2_SameOutputTwice ==
    (phase = "twice" /\ method \in {PluralityName, SchulzeName}) => res1 = res2

\* C3: rearranging the lines of the text does not change what vote() returns:
\* the same result (for Weighted Random the same set of possible results),
\* and the same error for an invalid text.
C3_LineOrderIrrelevant ==
    phase = "permuted" =>
        IF method = WeightedRandomName
        THEN vote(votes_raw2, method) = vote(votes_raw, method)
        ELSE res1 = res2

\* C4: a line with weight N gives the same tallies as N copies of the line
\* with weight 1: the same plurality totals, pairwise sums and consolidated
\* weights, and so the same ranking (for Weighted Random the same set of
\* possible rankings).
C4_WeightIsRepetition ==
    phase = "expanded" =>
        /\ \A c \in NamesOfText(votes_raw) :
              FirstChoiceWeight(votes_raw2, c) = FirstChoiceWeight(votes_raw, c)
        /\ \A a, b \in NamesOfText(votes_raw) :
              Prefer(votes_raw2, a, b) = Prefer(votes_raw, a, b)
        /\ IF method = WeightedRandomName
           THEN vote(votes_raw2, method) = vote(votes_raw, method)
           ELSE res1 = res2

\* What holds of the rearranged and of the expanded text in place of C3 and
\* C4: the same errors, the same ranks and the same sets of possible results;
\* only the order of candidates of equal rank is not fixed.
SecondAgreesUpToTies ==
    phase \in {"twice", "permuted", "expanded"} =>
        /\ vote(votes_raw2, method) = vote(votes_raw, method)
        /\ res1.ok = res2.ok
        /\ ~res1.ok => res1 = res2
        /\ (res1.ok /\ method # WeightedRandomName) => RankOf(res1.val) = RankOf(res2.val)

----------------------------------------------------------------------------
(* weighted_random (app.rs:140-167) step by step.  An arithmetic overflow  *)
(* panics in a build with overflow checks and wraps in one without; both   *)
(* outcomes are modelled.                                                  *)

LotteryCandidates == {"A", "B", "C"}

\* The weights of the unranked votes: small ones and the largest u32.
LotteryWeights == {1, 2, WeightModulus - 1}

UnrankedLists ==
    UNION {[1..n -> LotteryCandidates \X LotteryWeights] : n \in 0..MaxVotes}

\* Some candidate's weights add up past the largest u32 (app.rs:86).
ConsolidateOverflows(uv) ==
    \E c \in ConsolidatedKeys(uv) :
        SumOver([i \in DOMAIN uv |-> uv[i][2]], VotesFor(uv, c)) >= WeightModulus

\* The pool's weights add up past the largest u32 (app.rs:146), or the sum
\* is the largest u32 and sum + 1 overflows (app.rs:147).
DrawOverflows(pool) ==
    SumOver([i \in DOMAIN pool |-> pool[i][2]], DOMAIN pool) + 1 >= WeightModulus

LotteryInit ==
    /\ input \in UnrankedLists
    /\ pc = "consolidate"
    /\ votes = <<>> /\ lw = <<>> /\ roll = 0 /\ found_index = 0 /\ output = <<>>
    /\ raw_votes = <<>> /\ alg = PluralityName /\ winners = <<>> /\ error = ""
    /\ event = "none"
    /\ votes_raw = <<>> /\ method = PluralityName /\ phase = "idle"
    /\ res1 = NoResult /\ votes_raw2 = <<>> /\ res2 = NoResult

Panic ==
    /\ pc' = "panic"
    /\ UNCHANGED <<votes, input, lw, roll, found_index, output>>

\* app.rs:143
Consolidate ==
    /\ pc = "consolidate"
    /\ \/ ConsolidateOverflows(input) /\ Panic
       \/ /\ \E order \in Perms(ConsolidatedKeys(input)) :
                votes' = ConsolidatedVec(input, order)
          /\ pc' = "loop"
          /\ UNCHANGED <<input, lw, roll, found_index, output>>
    /\ UNCHANGED appVars
    /\ UNCHANGED voteVars

\* app.rs:145-149: the loop test, the sum, the draw.
Draw ==
    /\ pc = "loop"
    /\ votes # <<>>
    /\ \/ DrawOverflows(votes) /\ Panic
       \/ RollRange(PoolSum(votes)) = {} /\ Panic
       \/ /\ \E r \in RollRange(PoolSum(votes)) : roll' = r
          /\ found_index' = 0
          /\ pc' = "walk"
          /\ UNCHANGED <<votes, input, lw, output>>
    /\ UNCHANGED appVars
    /\ UNCHANGED voteVars

\* app.rs:150-157: one iteration of the inner loop.
WalkStep ==
    /\ pc = "walk"
    /\ IF found_index >= Len(votes) THEN Panic
       ELSE IF roll <= votes[found_index + 1][2]
       THEN pc' = "remove" /\ UNCHANGED <<votes, input, lw, roll, found_index, output>>
       ELSE /\ roll' = roll - votes[found_index + 1][2]
            /\ found_index' = found_index + 1
            /\ UNCHANGED <<pc, votes, input, lw, output>>
    /\ UNCHANGED appVars
    /\ UNCHANGED voteVars

\* app.rs:159
Remove ==
    /\ pc = "remove"
    /\ lw' = Append(lw, votes[found_index + 1][1])
    /\ votes' = swap_remove(votes, found_index)
    /\ pc' = "loop"
    /\ UNCHANGED <<input, roll, found_index, output>>
    /\ UNCHANGED appVars
    /\ UNCHANGED voteVars

\* app.rs:162-166: the loop has ended.
Finish ==
    /\ pc = "loop"
    /\ votes = <<>>
    /\ output' = Enumerated(lw)
    /\ pc' = "done"
    /\ UNCHANGED <<votes, input, lw, roll, found_index>>
    /\ UNCHANGED appVars
    /\ UNCHANGED voteVars

LotteryNext == Consolidate \/ Draw \/ WalkStep \/ Remove \/ Finish

SpecLottery == LotteryInit /\ [][LotteryNext]_vars /\ WF_vars(LotteryNext)

\* The total weight of the votes is small enough for no u32 sum to overflow.
FitsU32(uv) ==
    SumOver([i \in DOMAIN uv |-> uv[i][2]], DOMAIN uv) + 1 < WeightModulus

\* The output is a permutation of the candidates voted for, ranked 0, 1, ...
\* in the order drawn.
IsDrawOrder(out, uv) ==
    /\ ListsExactly(out, ConsolidatedKeys(uv))
    /\ \A i \in DOMAIN out : out[i][2] = i - 1

\* C9: for any unranked votes with positive weights weighted_random runs to
\* its end: it does not panic, the walk stays inside the pool, every
\* iteration of the outer loop moves one candidate from the pool to the
\* winners, and the output is a permutation of the candidates with ranks
\* 0..n-1 in draw order.
C9_LotteryCompletes ==
    (\A i \in DOMAIN input : input[i][2] > 0) =>
        /\ pc # "panic"
        /\ pc = "walk" => found_index < Len(votes)
        /\ pc \in {"loop", "walk", "remove"} =>
              Len(votes) + Len(lw) = Cardinality(ConsolidatedKeys(input))
        /\ pc = "done" => IsDrawOrder(output, input)

\* What holds in place of C9: the same, for votes whose total weight fits u32.
LotteryCompletesWhenFits ==
    FitsU32(input) =>
        /\ pc # "panic"
        /\ pc = "walk" => found_index < Len(votes)
        /\ pc \in {"loop", "walk", "remove"} =>
              Len(votes) + Len(lw) = Cardinality(ConsolidatedKeys(input))
        /\ pc = "done" => IsDrawOrder(output, input)

\* With a total weight that fits u32, weighted_random returns.
LotteryTerminatesWhenFits == FitsU32(input) ~> pc = "done"

====
